---- MODULE Spec2Model ----
(* Model of pkg/github/gists.go: the three gist tool handlers (get_gist,    *)
(* list_gists, list_starred_gists).  One invocation runs at a time; when it *)
(* has returned, NewInvocation keeps a summary of it in prev and starts the *)
(* next one, so that two invocations can be compared.                       *)
EXTENDS Integers, Sequences, FiniteSets, TLC

VARIABLES op, request, pc, gistID, factoryCalls, remoteCalls, factoryOut,
          call, callOut, deferred, bodyClosed, bodyDrained, readOut,
          marshalOut, result, err, prev

vars == <<op, request, pc, gistID, factoryCalls, remoteCalls, factoryOut,
          call, callOut, deferred, bodyClosed, bodyDrained, readOut,
          marshalOut, result, err, prev>>

(* ---------------- bounds of the model ---------------- *)
MaxPage == 2
MaxPerPage == 2

(* ---------------- Go values ---------------- *)
StatusOK == 200

NilResult == [kind |-> "nil"]
NilErr == [kind |-> "nil"]
NilResp == [kind |-> "nil"]
NilValue == [nil |-> TRUE]
NoCall == [method |-> "none"]
NilOpts == [kind |-> "nil"]
NotYet == [kind |-> "pending"]
NoPrev == [op |-> "none"]

NewError(m) == [kind |-> "error", msg |-> m, wrapped |-> NilErr]

\* fmt.Errorf("<prefix>: %w", e)
Errorf(prefix, e) == [kind |-> "error", msg |-> prefix \o ": " \o e.msg, wrapped |-> e]

\* mcp.NewToolResultError(text)
NewToolResultError(text) == [kind |-> "result", isError |-> TRUE, text |-> text]

\* mcp.NewToolResultText(text)
NewToolResultText(text) == [kind |-> "result", isError |-> FALSE, text |-> text]

(* ---------------- tool descriptors ---------------- *)
WithPagination ==
    { [name |-> "page", type |-> "number", required |-> FALSE],
      [name |-> "perPage", type |-> "number", required |-> FALSE] }

GetGistTool ==
    [name |-> "get_gist", readOnly |-> TRUE,
     params |-> { [name |-> "gist_id", type |-> "number", required |-> TRUE] }]

ListGistsTool ==
    [name |-> "list_gists", readOnly |-> TRUE, params |-> WithPagination]

ListStarredGistsTool ==
    [name |-> "list_starred_gists", readOnly |-> TRUE, params |-> WithPagination]

(* ---------------- invocation requests ---------------- *)
\* An argument is absent, or a JSON string, or a JSON number (val is its literal).
GistIdArgs ==
    { [type |-> "absent"],
      [type |-> "string", val |-> ""],
      [type |-> "string", val |-> "42"],
      [type |-> "string", val |-> "7"],
      [type |-> "number", val |-> "42"] }

Requests(o) ==
    IF o = "get_gist"
    THEN { [gist_id |-> a] : a \in GistIdArgs }
    ELSE { [page |-> p, perPage |-> n] : p \in 1..MaxPage, n \in 1..MaxPerPage }

\* requiredParam[string](request, p)
requiredParam(r, p) ==
    LET a == r[p] IN
    IF a.type = "absent"
    THEN [val |-> "", err |-> NewError("missing required parameter: " \o p)]
    ELSE IF a.type # "string"
    THEN [val |-> "", err |-> NewError("parameter " \o p \o " is not of type string")]
    ELSE IF a.val = ""
    THEN [val |-> "", err |-> NewError("missing required parameter: " \o p)]
    ELSE [val |-> a.val, err |-> NilErr]

(* ---------------- the environment: client factory and remote service ---- *)
FactoryErrors == { NewError("no token"), NewError("context canceled") }

CallErrors == { NewError("connection refused"), NewError("context canceled"),
                NewError("context deadline exceeded") }

ReadErrors == { NewError("unexpected EOF") }

MarshalErrors == { NewError("json: unsupported value") }

Statuses == {StatusOK, 204, 429}

Bodies == {"", "rate limited"}

\* A *github.Gist: each field is a pointer, <<>> is nil, <<s>> points to s.
Gist1 == [id |-> <<"42">>, description |-> <<"demo">>]
Gist2 == [id |-> <<"7">>, description |-> <<>>]
Gist3 == [id |-> <<>>, description |-> <<>>]

GistValues == { [nil |-> FALSE, gist |-> g] : g \in {Gist1, Gist2, Gist3} }

GistListValues ==
    { [nil |-> FALSE, gists |-> s] : s \in {<<>>, <<Gist1>>, <<Gist1, Gist2>>} }

Responses == { [kind |-> "resp", status |-> s, body |-> b] : s \in Statuses, b \in Bodies }

\* What a remote call can hand back: (value, resp, nil) or (nil, resp-or-nil, err).
CallOutcomes(values) ==
    { [err |-> NilErr, resp |-> r, value |-> v] : r \in Responses, v \in values }
    \cup { [err |-> e, resp |-> r, value |-> NilValue] :
             e \in CallErrors, r \in {NilResp, [kind |-> "resp", status |-> 429, body |-> "rate limited"]} }

(* ---------------- encoding/json ---------------- *)
Quote(s) == "\"" \o s \o "\""

RECURSIVE JoinComma(_)
JoinComma(ss) ==
    IF Len(ss) = 0 THEN ""
    ELSE IF Len(ss) = 1 THEN ss[1]
    ELSE ss[1] \o "," \o JoinComma(Tail(ss))

\* Fields tagged `json:"...,omitempty"`: a nil pointer is left out.
MarshalGist(g) ==
    LET f1 == IF Len(g.id) = 0 THEN <<>> ELSE << Quote("id") \o ":" \o Quote(g.id[1]) >>
        f2 == IF Len(g.description) = 0 THEN <<>>
              ELSE << Quote("description") \o ":" \o Quote(g.description[1]) >>
    IN "{" \o JoinComma(f1 \o f2) \o "}"

RECURSIVE MarshalGists(_)
MarshalGists(s) ==
    IF Len(s) = 0 THEN <<>> ELSE <<MarshalGist(Head(s))>> \o MarshalGists(Tail(s))

\* json.Marshal(v) when it succeeds
JSONMarshal(v) ==
    IF v.nil THEN "null"
    ELSE IF "gist" \in DOMAIN v THEN MarshalGist(v.gist)
    ELSE "[" \o JoinComma(MarshalGists(v.gists)) \o "]"

(* ---------------- returning from a handler ---------------- *)
\* return res, e: the deferred resp.Body.Close() runs, if it was registered
Return(res, e) ==
    /\ result' = res
    /\ err' = e
    /\ bodyClosed' = (bodyClosed \/ deferred)
    /\ pc' = "done"

Init ==
    /\ op \in {"get_gist", "list_gists", "list_starred_gists"}
    /\ request \in Requests(op)
    /\ pc = "start"
    /\ gistID = ""
    /\ factoryCalls = 0
    /\ remoteCalls = 0
    /\ factoryOut = NotYet
    /\ call = NoCall
    /\ callOut = NotYet
    /\ deferred = FALSE
    /\ bodyClosed = FALSE
    /\ bodyDrained = FALSE
    /\ readOut = NotYet
    /\ marshalOut = NotYet
    /\ result = NilResult
    /\ err = NilErr
    /\ prev = NoPrev

(* ---------------- get_gist ---------------- *)

\* Variant: the extraction error is not checked.
GetGist_requiredParam_Unchecked ==
    /\ op = "get_gist" /\ pc = "start"
    /\ gistID' = requiredParam(request, "gist_id").val
    /\ pc' = "getClient"
    /\ UNCHANGED <<result, err, bodyClosed>>
    /\ UNCHANGED <<op, request, factoryCalls, remoteCalls, factoryOut, call, callOut,
                   deferred, bodyDrained, readOut, marshalOut, prev>>

GetGist_requiredParam ==
    /\ op = "get_gist" /\ pc = "start"
    /\ LET r == requiredParam(request, "gist_id") IN
       IF r.err # NilErr
       THEN /\ Return(NewToolResultError(r.err.msg), NilErr)
            /\ UNCHANGED gistID
       ELSE /\ gistID' = r.val
            /\ pc' = "getClient"
            /\ UNCHANGED <<result, err, bodyClosed>>
    /\ UNCHANGED <<op, request, factoryCalls, remoteCalls, factoryOut, call, callOut,
                   deferred, bodyDrained, readOut, marshalOut, prev>>

GetGist_getClient ==
    /\ op = "get_gist" /\ pc = "getClient"
    /\ factoryCalls' = factoryCalls + 1
    /\ \E out \in {NilErr} \cup FactoryErrors :
         /\ factoryOut' = out
         /\ IF out # NilErr
            THEN Return(NilResult, Errorf("failed to get GitHub client", out))
            ELSE /\ pc' = "call"
                 /\ UNCHANGED <<result, err, bodyClosed>>
    /\ UNCHANGED <<op, request, gistID, remoteCalls, call, callOut,
                   deferred, bodyDrained, readOut, marshalOut, prev>>


\* Variant: the deferred resp.Body.Close() is missing.
GetGist_Get_NoDefer ==
    /\ op = "get_gist" /\ pc = "call"
    /\ remoteCalls' = remoteCalls + 1
    /\ call' = [method |-> "Gists.Get", id |-> gistID]
    /\ \E out \in CallOutcomes(GistValues) :
         /\ callOut' = out
         /\ IF out.err # NilErr
            THEN Return(NilResult, Errorf("failed to get gist", out.err))
            ELSE /\ pc' = "called"
                 /\ UNCHANGED <<result, err, bodyClosed>>
    /\ UNCHANGED <<op, request, gistID, factoryCalls, factoryOut, deferred,
                   bodyDrained, readOut, marshalOut, prev>>

GetGist_Get ==
    /\ op = "get_gist" /\ pc = "call"
    /\ remoteCalls' = remoteCalls + 1
    /\ call' = [method |-> "Gists.Get", id |-> gistID]
    /\ \E out \in CallOutcomes(GistValues) :
         /\ callOut' = out
         /\ IF out.err # NilErr
            THEN /\ Return(NilResult, Errorf("failed to get gist", out.err))
                 /\ UNCHANGED deferred
            ELSE /\ deferred' = TRUE
                 /\ pc' = "called"
                 /\ UNCHANGED <<result, err, bodyClosed>>
    /\ UNCHANGED <<op, request, gistID, factoryCalls, factoryOut,
                   bodyDrained, readOut, marshalOut, prev>>


\* Variant: the body text is left out of the structured error.
GetGist_ReadAll_NoBody ==
    /\ op = "get_gist" /\ pc = "called"
    /\ callOut.resp.status # StatusOK
    /\ \E r \in {NilErr} \cup ReadErrors :
         /\ readOut' = r
         /\ IF r # NilErr
            THEN /\ Return(NilResult, Errorf("failed to read response body", r))
                 /\ UNCHANGED bodyDrained
            ELSE /\ bodyDrained' = TRUE
                 /\ Return(NewToolResultError("failed to get gist"), NilErr)
    /\ UNCHANGED <<op, request, gistID, factoryCalls, remoteCalls, factoryOut, call,
                   callOut, deferred, marshalOut, prev>>

GetGist_ReadAll ==
    /\ op = "get_gist" /\ pc = "called"
    /\ callOut.resp.status # StatusOK
    /\ \E r \in {NilErr} \cup ReadErrors :
         /\ readOut' = r
         /\ IF r # NilErr
            THEN /\ Return(NilResult, Errorf("failed to read response body", r))
                 /\ UNCHANGED bodyDrained
            ELSE /\ bodyDrained' = TRUE
                 /\ Return(NewToolResultError("failed to get gist: " \o callOut.resp.body), NilErr)
    /\ UNCHANGED <<op, request, gistID, factoryCalls, remoteCalls, factoryOut, call,
                   callOut, deferred, marshalOut, prev>>


\* Variant: the description field is filtered out of the payload.
GetGist_Marshal_Filtered ==
    /\ op = "get_gist" /\ pc = "called"
    /\ callOut.resp.status = StatusOK
    /\ \E m \in {NilErr} \cup MarshalErrors :
         /\ marshalOut' = m
         /\ IF m # NilErr
            THEN Return(NilResult, Errorf("failed to marshal gist", m))
            ELSE Return(NewToolResultText(JSONMarshal(
                     [callOut.value EXCEPT !.gist.description = <<>>])), NilErr)
    /\ UNCHANGED <<op, request, gistID, factoryCalls, remoteCalls, factoryOut, call,
                   callOut, deferred, bodyDrained, readOut, prev>>

GetGist_Marshal ==
    /\ op = "get_gist" /\ pc = "called"
    /\ callOut.resp.status = StatusOK
    /\ \E m \in {NilErr} \cup MarshalErrors :
         /\ marshalOut' = m
         /\ IF m # NilErr
            THEN Return(NilResult, Errorf("failed to marshal gist", m))
            ELSE Return(NewToolResultText(JSONMarshal(callOut.value)), NilErr)
    /\ UNCHANGED <<op, request, gistID, factoryCalls, remoteCalls, factoryOut, call,
                   callOut, deferred, bodyDrained, readOut, prev>>

GetGist ==
    \/ GetGist_requiredParam
    \/ GetGist_getClient
    \/ GetGist_Get
    \/ GetGist_ReadAll
    \/ GetGist_Marshal

(* ---------------- list_gists ---------------- *)
ListGists_getClient ==
    /\ op = "list_gists" /\ pc = "start"
    /\ factoryCalls' = factoryCalls + 1
    /\ \E out \in {NilErr} \cup FactoryErrors :
         /\ factoryOut' = out
         /\ IF out # NilErr
            THEN Return(NilResult, Errorf("failed to get GitHub client", out))
            ELSE /\ pc' = "call"
                 /\ UNCHANGED <<result, err, bodyClosed>>
    /\ UNCHANGED <<op, request, gistID, remoteCalls, call, callOut,
                   deferred, bodyDrained, readOut, marshalOut, prev>>


\* Variant: a failed call is retried once.
ListGists_ListStarred_Retry ==
    /\ op = "list_gists" /\ pc = "call"
    /\ call' = [method |-> "Gists.ListStarred", opts |-> NilOpts]
    /\ \E out \in CallOutcomes(GistListValues) :
         /\ callOut' = out
         /\ IF out.err # NilErr
            THEN /\ remoteCalls' = remoteCalls + 2
                 /\ Return(NilResult, Errorf("failed to list gists", out.err))
                 /\ UNCHANGED deferred
            ELSE /\ remoteCalls' = remoteCalls + 1
                 /\ deferred' = TRUE
                 /\ pc' = "called"
                 /\ UNCHANGED <<result, err, bodyClosed>>
    /\ UNCHANGED <<op, request, gistID, factoryCalls, factoryOut,
                   bodyDrained, readOut, marshalOut, prev>>

\* Variant: list_gists issues the "list" call instead of "list starred".
ListGists_ListStarred_List ==
    /\ op = "list_gists" /\ pc = "call"
    /\ remoteCalls' = remoteCalls + 1
    /\ call' = [method |-> "Gists.List", opts |-> NilOpts]
    /\ \E out \in CallOutcomes(GistListValues) :
         /\ callOut' = out
         /\ IF out.err # NilErr
            THEN /\ Return(NilResult, Errorf("failed to list gists", out.err))
                 /\ UNCHANGED deferred
            ELSE /\ deferred' = TRUE
                 /\ pc' = "called"
                 /\ UNCHANGED <<result, err, bodyClosed>>
    /\ UNCHANGED <<op, request, gistID, factoryCalls, factoryOut,
                   bodyDrained, readOut, marshalOut, prev>>

ListGists_ListStarred ==
    /\ op = "list_gists" /\ pc = "call"
    /\ remoteCalls' = remoteCalls + 1
    /\ call' = [method |-> "Gists.ListStarred", opts |-> NilOpts]
    /\ \E out \in CallOutcomes(GistListValues) :
         /\ callOut' = out
         /\ IF out.err # NilErr
            THEN /\ Return(NilResult, Errorf("failed to list gists", out.err))
                 /\ UNCHANGED deferred
            ELSE /\ deferred' = TRUE
                 /\ pc' = "called"
                 /\ UNCHANGED <<result, err, bodyClosed>>
    /\ UNCHANGED <<op, request, gistID, factoryCalls, factoryOut,
                   bodyDrained, readOut, marshalOut, prev>>

ListGists_ReadAll ==
    /\ op = "list_gists" /\ pc = "called"
    /\ callOut.resp.status # StatusOK
    /\ \E r \in {NilErr} \cup ReadErrors :
         /\ readOut' = r
         /\ IF r # NilErr
            THEN /\ Return(NilResult, Errorf("failed to read response body", r))
                 /\ UNCHANGED bodyDrained
            ELSE /\ bodyDrained' = TRUE
                 /\ Return(NewToolResultError("failed to list gists: " \o callOut.resp.body), NilErr)
    /\ UNCHANGED <<op, request, gistID, factoryCalls, remoteCalls, factoryOut, call,
                   callOut, deferred, marshalOut, prev>>

ListGists_Marshal ==
    /\ op = "list_gists" /\ pc = "called"
    /\ callOut.resp.status = StatusOK
    /\ \E m \in {NilErr} \cup MarshalErrors :
         /\ marshalOut' = m
         /\ IF m # NilErr
            THEN Return(NilResult, Errorf("failed to marshal gists", m))
            ELSE Return(NewToolResultText(JSONMarshal(callOut.value)), NilErr)
    /\ UNCHANGED <<op, request, gistID, factoryCalls, remoteCalls, factoryOut, call,
                   callOut, deferred, bodyDrained, readOut, prev>>

ListGists ==
    \/ ListGists_getClient
    \/ ListGists_ListStarred
    \/ ListGists_ReadAll
    \/ ListGists_Marshal

(* ---------------- list_starred_gists ---------------- *)
ListStarredGists_getClient ==
    /\ op = "list_starred_gists" /\ pc = "start"
    /\ factoryCalls' = factoryCalls + 1
    /\ \E out \in {NilErr} \cup FactoryErrors :
         /\ factoryOut' = out
         /\ IF out # NilErr
            THEN Return(NilResult, Errorf("failed to get GitHub client", out))
            ELSE /\ pc' = "call"
                 /\ UNCHANGED <<result, err, bodyClosed>>
    /\ UNCHANGED <<op, request, gistID, remoteCalls, call, callOut,
                   deferred, bodyDrained, readOut, marshalOut, prev>>


\* Variant: a failed call is reported as a structured error result.
ListStarredGists_ListStarred_Soft ==
    /\ op = "list_starred_gists" /\ pc = "call"
    /\ remoteCalls' = remoteCalls + 1
    /\ call' = [method |-> "Gists.ListStarred", opts |-> NilOpts]
    /\ \E out \in CallOutcomes(GistListValues) :
         /\ callOut' = out
         /\ IF out.err # NilErr
            THEN /\ Return(NewToolResultError("failed to list starred gists: " \o out.err.msg), NilErr)
                 /\ UNCHANGED deferred
            ELSE /\ deferred' = TRUE
                 /\ pc' = "called"
                 /\ UNCHANGED <<result, err, bodyClosed>>
    /\ UNCHANGED <<op, request, gistID, factoryCalls, factoryOut,
                   bodyDrained, readOut, marshalOut, prev>>

ListStarredGists_ListStarred ==
    /\ op = "list_starred_gists" /\ pc = "call"
    /\ remoteCalls' = remoteCalls + 1
    /\ call' = [method |-> "Gists.ListStarred", opts |-> NilOpts]
    /\ \E out \in CallOutcomes(GistListValues) :
         /\ callOut' = out
         /\ IF out.err # NilErr
            THEN /\ Return(NilResult, Errorf("failed to list starred gists", out.err))
                 /\ UNCHANGED deferred
            ELSE /\ deferred' = TRUE
                 /\ pc' = "called"
                 /\ UNCHANGED <<result, err, bodyClosed>>
    /\ UNCHANGED <<op, request, gistID, factoryCalls, factoryOut,
                   bodyDrained, readOut, marshalOut, prev>>

ListStarredGists_ReadAll ==
    /\ op = "list_starred_gists" /\ pc = "called"
    /\ callOut.resp.status # StatusOK
    /\ \E r \in {NilErr} \cup ReadErrors :
         /\ readOut' = r
         /\ IF r # NilErr
            THEN /\ Return(NilResult, Errorf("failed to read response body", r))
                 /\ UNCHANGED bodyDrained
            ELSE /\ bodyDrained' = TRUE
                 /\ Return(NewToolResultError("failed to list starred gists: " \o callOut.resp.body), NilErr)
    /\ UNCHANGED <<op, request, gistID, factoryCalls, remoteCalls, factoryOut, call,
                   callOut, deferred, marshalOut, prev>>


\* Variant: a marshal failure returns the error together with a result.
ListStarredGists_Marshal_Both ==
    /\ op = "list_starred_gists" /\ pc = "called"
    /\ callOut.resp.status = StatusOK
    /\ \E m \in {NilErr} \cup MarshalErrors :
         /\ marshalOut' = m
         /\ IF m # NilErr
            THEN Return(NewToolResultText(""), Errorf("failed to marshal starred gists", m))
            ELSE Return(NewToolResultText(JSONMarshal(callOut.value)), NilErr)
    /\ UNCHANGED <<op, request, gistID, factoryCalls, remoteCalls, factoryOut, call,
                   callOut, deferred, bodyDrained, readOut, prev>>

ListStarredGists_Marshal ==
    /\ op = "list_starred_gists" /\ pc = "called"
    /\ callOut.resp.status = StatusOK
    /\ \E m \in {NilErr} \cup MarshalErrors :
         /\ marshalOut' = m
         /\ IF m # NilErr
            THEN Return(NilResult, Errorf("failed to marshal starred gists", m))
            ELSE Return(NewToolResultText(JSONMarshal(callOut.value)), NilErr)
    /\ UNCHANGED <<op, request, gistID, factoryCalls, remoteCalls, factoryOut, call,
                   callOut, deferred, bodyDrained, readOut, prev>>

ListStarredGists ==
    \/ ListStarredGists_getClient
    \/ ListStarredGists_ListStarred
    \/ ListStarredGists_ReadAll
    \/ ListStarredGists_Marshal

(* ---------------- the host: one invocation after another ---------------- *)
\* What the client factory and the remote service did during the invocation.
Env == [factory |-> factoryOut, remote |-> callOut, read |-> readOut, marshal |-> marshalOut]

\* The handler has returned; the host starts the next, independent, invocation.
NewInvocation ==
    /\ pc = "done"
    /\ prev' = [op |-> op, env |-> Env, call |-> call, result |-> result, err |-> err]
    /\ op' \in {"get_gist", "list_gists", "list_starred_gists"}
    /\ request' \in Requests(op')
    /\ pc' = "start"
    /\ gistID' = ""
    /\ factoryCalls' = 0
    /\ remoteCalls' = 0
    /\ factoryOut' = NotYet
    /\ call' = NoCall
    /\ callOut' = NotYet
    /\ deferred' = FALSE
    /\ bodyClosed' = FALSE
    /\ bodyDrained' = FALSE
    /\ readOut' = NotYet
    /\ marshalOut' = NotYet
    /\ result' = NilResult
    /\ err' = NilErr

Next ==
    \/ GetGist
    \/ ListGists
    \/ ListStarredGists
    \/ NewInvocation

Spec == Init /\ [][Next]_vars

(* ======================= properties ======================= *)
ListOps == {"list_gists", "list_starred_gists"}

Returned == pc = "done"

IsSuccess(r) == r.kind = "result" /\ ~r.isError

IsStructuredError(r) == r.kind = "result" /\ r.isError

\* The remote call was issued and came back with (value, resp, nil).
CallReturnedOK == callOut # NotYet /\ callOut.err = NilErr

\* The remote call was issued and came back with an error.
CallFailed == callOut # NotYet /\ callOut.err # NilErr

\* The prefix each operation puts before a failure of its remote call.
CallPrefix(o) ==
    CASE o = "get_gist" -> "failed to get gist"
      [] o = "list_gists" -> "failed to list gists"
      [] o = "list_starred_gists" -> "failed to list starred gists"

\* gist_id is absent, empty, or not a string.
BadGistId ==
    \/ request.gist_id.type # "string"
    \/ request.gist_id.val = ""

\* C1: get_gist invoked with gist_id absent, empty or of the wrong type never
\* touches the client factory or the remote service, and returns a structured
\* error result with a nil hard error.
C1_ValidationBeforeNetwork ==
    (op = "get_gist" /\ BadGistId) =>
        /\ factoryCalls = 0
        /\ remoteCalls = 0
        /\ pc \in {"start", "done"}
        /\ Returned => (IsStructuredError(result) /\ err = NilErr)

C1_Witness ==
    /\ op = "get_gist" /\ Returned
    /\ request.gist_id.type = "absent"
    /\ IsStructuredError(result)

\* C2: in every handler a failure of the client factory or of the remote call
\* (cancellation and timeout included) ends the invocation with no result and
\* a hard error that wraps the original failure behind the prefix of the
\* failed step; it is never a structured error result.
C2_TransportHardError ==
    Returned =>
        /\ factoryOut \in FactoryErrors =>
              /\ result = NilResult
              /\ err.kind = "error"
              /\ err.wrapped = factoryOut
              /\ err.msg = "failed to get GitHub client: " \o factoryOut.msg
        /\ CallFailed =>
              /\ result = NilResult
              /\ err.kind = "error"
              /\ err.wrapped = callOut.err
              /\ err.msg = CallPrefix(op) \o ": " \o callOut.err.msg

C2_Witness ==
    /\ Returned /\ op = "list_starred_gists"
    /\ CallFailed /\ callOut.err.msg = "context canceled"
    /\ err.msg = "failed to list starred gists: context canceled"

\* C3: an invocation issues exactly one remote call when parameter extraction
\* and client acquisition both succeed, none when either fails, and never a
\* second one.
C3_ExactlyOneCall ==
    /\ remoteCalls <= 1
    /\ Returned =>
         remoteCalls = IF /\ (op = "get_gist" => ~BadGistId)
                          /\ factoryOut = NilErr
                       THEN 1 ELSE 0

C3_Witness ==
    /\ Returned /\ op = "list_gists"
    /\ CallFailed /\ remoteCalls = 1

\* C4 as stated: a call that returned without error with a status other than
\* 200 always ends in a structured error result (prefix, then the body text).
C4_Original ==
    (Returned /\ CallReturnedOK /\ callOut.resp.status # StatusOK) =>
        /\ result = NewToolResultError(CallPrefix(op) \o ": " \o callOut.resp.body)
        /\ err = NilErr

\* C4 (amended): when the call returned without error with a status other than
\* 200, the handler never returns a success payload; if reading the body
\* succeeded it returns a structured error result whose message is the
\* operation's prefix followed by the body text verbatim, with a nil hard
\* error; if reading the body failed it returns no result and a hard error
\* "failed to read response body" wrapping the read failure.
C4_Non200 ==
    (Returned /\ CallReturnedOK /\ callOut.resp.status # StatusOK) =>
        /\ ~IsSuccess(result)
        /\ readOut = NilErr =>
              /\ result = NewToolResultError(CallPrefix(op) \o ": " \o callOut.resp.body)
              /\ err = NilErr
        /\ readOut # NilErr =>
              /\ result = NilResult
              /\ err = Errorf("failed to read response body", readOut)

C4_Witness ==
    /\ Returned /\ op = "get_gist"
    /\ CallReturnedOK /\ callOut.resp.status = 429
    /\ result = NewToolResultError("failed to get gist: rate limited")

\* C5: a success payload is returned only when the call returned status 200,
\* and it is exactly the JSON serialization of the object (or array) the call
\* returned: every field the object has, under its own name, nothing else.
C5_ExactJSON ==
    (Returned /\ IsSuccess(result)) =>
        /\ CallReturnedOK
        /\ callOut.resp.status = StatusOK
        /\ err = NilErr
        /\ result.text = JSONMarshal(callOut.value)
        /\ (op = "get_gist" /\ callOut.value.gist = Gist1) =>
              result.text = "{\"id\":\"42\",\"description\":\"demo\"}"
        /\ (op \in ListOps /\ callOut.value.gists = <<Gist1, Gist2>>) =>
              result.text = "[{\"id\":\"42\",\"description\":\"demo\"},{\"id\":\"7\"}]"

C5_Witness ==
    /\ Returned /\ op = "get_gist" /\ gistID = "42"
    /\ CallReturnedOK /\ callOut.value.gist = Gist1
    /\ result = NewToolResultText("{\"id\":\"42\",\"description\":\"demo\"}")

C7_ExactlyOneOutcome ==
    /\ Returned =>
         \/ /\ result.kind = "result" /\ err = NilErr
            /\ IsSuccess(result) => result.text = JSONMarshal(callOut.value)
         \/ result = NilResult /\ err.kind = "error"
    /\ ~Returned => (result = NilResult /\ err = NilErr)

C7_Witness ==
    /\ Returned /\ op = "list_starred_gists"
    /\ marshalOut \in MarshalErrors
    /\ result = NilResult /\ err.kind = "error"

\* C8: the list operations forward the request's page number and page size
\* to the remote list call.
C8_PaginationForwarded ==
    (op \in ListOps /\ call # NoCall) =>
        call.opts = [page |-> request.page, perPage |-> request.perPage]

\* The suffixes that can follow an operation's text in a message.
Tails ==
    { ": " \o t : t \in Bodies \cup { e.msg : e \in CallErrors \cup MarshalErrors } }

\* a (from list_gists) and b (from list_starred_gists) are the same text, or
\* differ only by "gists" against "starred gists".
SameUpToOpText(a, b) ==
    \/ a = b
    \/ \E pre \in {"failed to list ", "failed to marshal "}, t \in Tails :
         /\ a = pre \o "gists" \o t
         /\ b = pre \o "starred gists" \o t

\* g is a returned list_gists invocation, s a returned list_starred_gists one.
ListOutcomesAgree(g, s) ==
    /\ g.call = s.call
    /\ g.call # NoCall => g.call = [method |-> "Gists.ListStarred", opts |-> NilOpts]
    /\ g.result.kind = s.result.kind
    /\ g.err.kind = s.err.kind
    /\ IsSuccess(g.result) => g.result = s.result
    /\ g.result.kind = "result" =>
         /\ g.result.isError = s.result.isError
         /\ SameUpToOpText(g.result.text, s.result.text)
    /\ g.err.kind = "error" =>
         /\ g.err.wrapped = s.err.wrapped
         /\ SameUpToOpText(g.err.msg, s.err.msg)

Current == [op |-> op, env |-> Env, call |-> call, result |-> result, err |-> err]

Conforms(req, tool) ==
    \A p \in tool.params : p.required => req[p.name].type = p.type

\* C10: a get_gist request whose gist_id conforms to the declared parameter
\* schema passes parameter extraction and reaches client acquisition.
C10_ConformingAccepted ==
    (op = "get_gist" /\ Returned /\ Conforms(request, GetGistTool)) =>
        factoryCalls = 1

====
